---- MODULE Spec2Model ----
(***************************************************************************)
(* A model of the remote-target discovery (utils.ts), the path-mapping     *)
(* resolver (utils.ts) and the screencast panel session (screencastPanel.ts)*)
(* of the Edge DevTools extension.                                         *)
(*                                                                         *)
(* Strings are sequences of one-character strings, so that length,         *)
(* search, replacement and parsing are computed as the code computes them. *)
(***************************************************************************)
EXTENDS Integers, Sequences, FiniteSets, TLC

VARIABLES
    \* ---- getListOfTargets (utils.ts 169-195)
    pc,            \* position of the async function: idle, await1, await2, done
    requests,      \* endpoints requested so far, in order
    completed,     \* number of requests whose fetch has settled
    responses,     \* what the server answered to each request (history)
    jsonResponse,  \* the local variable jsonResponse
    result,        \* the value the returned promise resolved with
    rejected,      \* the returned promise rejected (an exception reached the caller)
    \* ---- fixRemoteWebSocket (utils.ts 150-162)
    fixCall,       \* the arguments of the call: remoteAddress, remotePort, target
    fixReturned,   \* the target the call returned, or NoTarget before it returns
    \* ---- applyPathMapping (utils.ts 400-444)
    pmCall,        \* the call: sourcePath, pathMapping, and the environment it reads
    pmReturned,    \* what the call returned, or NotReturned
    \* ---- ScreencastPanel (screencastPanel.ts)
    instance,      \* ScreencastPanel.instance: 0 for undefined, else the panel's number
    panels,        \* every ScreencastPanel constructed so far, in order of construction
    overflow,      \* a handler ran into the call-depth limit (it did not terminate)
    \* ---- getRemoteEndpointSettings (utils.ts 201-233)
    settingsCall,     \* the call: the launch config and the persisted settings it reads
    settingsReturned  \* the IDevToolsSettings the call returned, or NotReturned

discoveryVars == <<pc, requests, completed, responses, jsonResponse, result, rejected>>
fixVars == <<fixCall, fixReturned>>
pmVars == <<pmCall, pmReturned>>

panelVars == <<instance, panels, overflow>>

settingsVars == <<settingsCall, settingsReturned>>

vars == <<discoveryVars, fixVars, pmVars, panelVars, settingsVars>>

(***************************************************************************)
(* Bounds                                                                  *)
(***************************************************************************)
MaxBody == 3
MaxUrl == 7
MaxPath == 3
MaxKeys == 2
MaxPanels == 2
MaxFrames == 3
MaxCallDepth == 12

(***************************************************************************)
(* The state of each part before it is called                              *)
(***************************************************************************)
NoResult == [kind |-> "none"]
NoTarget == [has |-> FALSE, webSocketDebuggerUrl |-> <<"?">>]
NoWorkspace == [open |-> FALSE, uri |-> <<>>]
NotReturned == <<"?", "?">>

IdleDiscovery ==
    /\ pc = "idle"
    /\ requests = <<>>
    /\ completed = 0
    /\ responses = <<>>
    /\ jsonResponse = <<>>
    /\ result = NoResult
    /\ rejected = FALSE

IdleFix ==
    /\ fixCall \in [remoteAddress : {<<"r">>}, remotePort : {8}, target : {NoTarget}]
    /\ fixReturned = NoTarget

IdlePm ==
    /\ pmCall = [sourcePath |-> <<>>, pathMapping |-> <<>>,
                 env |-> [platform |-> "posix", workspace |-> NoWorkspace]]
    /\ pmReturned = NotReturned

IdlePanel ==
    /\ instance = 0
    /\ panels = <<>>
    /\ overflow = FALSE

NoSettings == [returned |-> FALSE]

IdleSettings ==
    /\ settingsCall = [config |-> <<>>, settings |-> <<>>]
    /\ settingsReturned = NoSettings

(***************************************************************************)
(* Strings                                                                 *)
(***************************************************************************)
RECURSIVE SeqsUpTo(_, _)
SeqsUpTo(S, n) ==
    IF n = 0 THEN {<<>>}
    ELSE LET shorter == SeqsUpTo(S, n - 1)
         IN  shorter \cup {Append(s, c) : s \in {t \in shorter : Len(t) = n - 1}, c \in S}

\* String.prototype.trim on the model's alphabet (the only white space is " ")
RECURSIVE TrimLeft(_)
TrimLeft(s) == IF s # <<>> /\ Head(s) = " " THEN TrimLeft(Tail(s)) ELSE s

RECURSIVE TrimRight(_)
TrimRight(s) ==
    IF s # <<>> /\ s[Len(s)] = " " THEN TrimRight(SubSeq(s, 1, Len(s) - 1)) ELSE s

Trim(s) == TrimRight(TrimLeft(s))

\* JavaScript truthiness of a string: every string but the empty one
Truthy(s) == s # <<>>

(***************************************************************************)
(* JSON.parse on bodies over the alphabet: space, brackets, comma and "t", *)
(* where "t" stands for one well-formed target object literal.             *)
(***************************************************************************)
JsonChars == {" ", "[", "]", ",", "t"}

Bodies == SeqsUpTo(JsonChars, MaxBody)

RECURSIVE SkipWs(_, _)
SkipWs(s, i) == IF i <= Len(s) /\ s[i] = " " THEN SkipWs(s, i + 1) ELSE i

Target == [kind |-> "object"]
JsonArray(items) == [kind |-> "array", items |-> items]
ParseFail == [ok |-> FALSE, val |-> Target, next |-> 0]

RECURSIVE ParseValue(_, _), ParseElements(_, _, _)
\* one JSON value starting at position i (white space already skipped)
ParseValue(s, i) ==
    IF i > Len(s) THEN ParseFail
    ELSE IF s[i] = "t" THEN [ok |-> TRUE, val |-> Target, next |-> i + 1]
    ELSE IF s[i] = "["
         THEN LET j == SkipWs(s, i + 1)
              IN  IF j <= Len(s) /\ s[j] = "]"
                  THEN [ok |-> TRUE, val |-> JsonArray(<<>>), next |-> j + 1]
                  ELSE ParseElements(s, j, <<>>)
    ELSE ParseFail

\* the elements of an array from position i on, after "[" or ","
ParseElements(s, i, acc) ==
    LET v == ParseValue(s, i)
    IN  IF ~v.ok THEN ParseFail
        ELSE LET j == SkipWs(s, v.next)
             IN  IF j > Len(s) THEN ParseFail
                 ELSE IF s[j] = "]"
                      THEN [ok |-> TRUE, val |-> JsonArray(Append(acc, v.val)), next |-> j + 1]
                 ELSE IF s[j] = ","
                      THEN ParseElements(s, SkipWs(s, j + 1), Append(acc, v.val))
                 ELSE ParseFail

\* JSON.parse: [ok, val]; ok = FALSE stands for the SyntaxError it throws
JSONParse(s) ==
    LET v == ParseValue(s, SkipWs(s, 1))
    IN  IF v.ok /\ SkipWs(s, v.next) > Len(s)
        THEN [ok |-> TRUE, val |-> v.val]
        ELSE [ok |-> FALSE, val |-> Target]

IsJsonArray(s) == JSONParse(s).ok /\ JSONParse(s).val.kind = "array"

(***************************************************************************)
(* fetchUri (utils.ts 112-139)                                             *)
(***************************************************************************)
\* the bodies a server sends with an error status
ErrorBodies == {<<>>, <<" ">>, <<"t">>, <<"[", "t", "]">>}

\* What the server does with a request: a network error, or a status and a body
ServerAnswers ==
    [net : {"error"}, status : {0}, data : {<<>>}]
        \cup [net : {"ok"}, status : {200}, data : Bodies]
        \cup [net : {"ok"}, status : {404, 500}, data : ErrorBodies]

\* fetchUri without the status test of line 129
FetchUriAnyStatus(answer) ==
    IF answer.net = "error" THEN [resolved |-> FALSE, value |-> <<"e">>]
    ELSE [resolved |-> TRUE, value |-> answer.data]

\* The promise fetchUri returns: resolved with the body on 200, rejected otherwise
FetchUri(answer) ==
    IF answer.net = "error" THEN [resolved |-> FALSE, value |-> <<"e">>]
    ELSE IF answer.status = 200 THEN [resolved |-> TRUE, value |-> answer.data]
    ELSE [resolved |-> FALSE, value |-> Trim(answer.data)]

(***************************************************************************)
(* getListOfTargets (utils.ts 169-195)                                     *)
(***************************************************************************)
Endpoints == <<"/json/list", "/json">>

\* lines 188-194 without the try/catch: the SyntaxError reaches the caller
ParseJsonResponseNoCatch(s) ==
    IF JSONParse(s).ok
    THEN [rejected |-> FALSE, value |-> JSONParse(s).val]
    ELSE [rejected |-> TRUE, value |-> NoResult]

\* lines 188-194: JSON.parse in a try/catch that turns a throw into []
ParseJsonResponse(s) ==
    IF JSONParse(s).ok
    THEN [rejected |-> FALSE, value |-> JSONParse(s).val]
    ELSE [rejected |-> FALSE, value |-> JsonArray(<<>>)]

\* line 180 with the test dropped: the loop leaves after any fetch that resolves
BreaksLoopAlways(response) == TRUE

\* line 180 with the break dropped: every endpoint is requested
BreaksLoopNever(response) == FALSE

\* line 180: the loop leaves with the first response that is truthy
BreaksLoop(response) == Truthy(response)

\* the function's tail once the loop is left: parse and return
Return(response) ==
    /\ pc' = "done"
    /\ result' = ParseJsonResponse(response).value
    /\ rejected' = ParseJsonResponse(response).rejected

\* lines 176-179, first iteration up to the await of the first fetch
Call ==
    /\ pc = "idle"
    /\ pc' = "await1"
    /\ requests' = <<Endpoints[1]>>
    /\ UNCHANGED <<completed, responses, jsonResponse, result, rejected>>

\* the fetch of endpoint n settles; the loop body's continuation runs to the next
\* await or to the return
Settle(n, answer) ==
    LET promise == FetchUri(answer)
        \* line 179 assigns only when the await does not throw
        response == IF promise.resolved THEN promise.value ELSE jsonResponse
        leave == (promise.resolved /\ BreaksLoop(promise.value)) \/ n = Len(Endpoints)
    IN  /\ completed' = n
        /\ responses' = Append(responses, answer)
        /\ jsonResponse' = response
        /\ IF leave
           THEN Return(response) /\ UNCHANGED requests
           ELSE /\ pc' = "await2"
                /\ requests' = Append(requests, Endpoints[n + 1])
                /\ UNCHANGED <<result, rejected>>

FirstFetchSettles ==
    /\ pc = "await1"
    /\ \E answer \in ServerAnswers : Settle(1, answer)

SecondFetchSettles ==
    /\ pc = "await2"
    /\ \E answer \in ServerAnswers : Settle(2, answer)

(***************************************************************************)
(* fixRemoteWebSocket (utils.ts 150-162)                                   *)
(***************************************************************************)
UrlChars == {"w", "s", ":", "/", "h"}

\* the targets whose webSocketDebuggerUrl, when present (has = TRUE), has at most
\* n characters
Targets(n) == [has : {FALSE}, webSocketDebuggerUrl : {<<>>}]
                  \cup [has : {TRUE}, webSocketDebuggerUrl : SeqsUpTo(UrlChars, n)]

RemoteAddresses == {<<"r">>}
RemotePorts == {8, 80}

\* the decimal digits of a number, as a template literal prints it
Digit(n) == <<"0", "1", "2", "3", "4", "5", "6", "7", "8", "9">>[n + 1]
RECURSIVE ToDecimal(_)
ToDecimal(n) == IF n < 10 THEN <<Digit(n)>> ELSE ToDecimal(n \div 10) \o <<Digit(n % 10)>>

\* s has t at position i
HasAt(s, t, i) == i >= 1 /\ i + Len(t) - 1 <= Len(s) /\ SubSeq(s, i, i + Len(t) - 1) = t

\* String.prototype.indexOf, 1-based; 0 when t does not occur in s
IndexOf(s, t) ==
    IF \E i \in 1..(Len(s) + 1) : HasAt(s, t, i)
    THEN CHOOSE i \in 1..(Len(s) + 1) :
             HasAt(s, t, i) /\ \A j \in 1..(i - 1) : ~HasAt(s, t, j)
    ELSE 0

\* String.prototype.replace(string, string): the first occurrence only
ReplaceFirst(s, t, by) ==
    LET i == IndexOf(s, t)
    IN  IF i = 0 THEN s
        ELSE SubSeq(s, 1, i - 1) \o by \o SubSeq(s, i + Len(t), Len(s))

\* the longest run of characters other than "/" that starts at position i
RECURSIVE NonSlashRun(_, _)
NonSlashRun(s, i) ==
    IF i <= Len(s) /\ s[i] # "/" THEN <<s[i]>> \o NonSlashRun(s, i + 1) ELSE <<>>

WsScheme == <<"w", "s", ":", "/", "/">>

\* line 155: match(/ws:\/\/([^/]+)\/?/): the leftmost place where "ws://" is followed
\* by at least one character other than "/"; group 1 is the greedy run of them
MatchesAt(s, i) == HasAt(s, WsScheme, i) /\ NonSlashRun(s, i + Len(WsScheme)) # <<>>
AddressMatch(s) ==
    IF \E i \in 1..Len(s) : MatchesAt(s, i)
    THEN LET i == CHOOSE k \in 1..Len(s) :
                      MatchesAt(s, k) /\ \A j \in 1..(k - 1) : ~MatchesAt(s, j)
         IN  [found |-> TRUE, group1 |-> NonSlashRun(s, i + Len(WsScheme))]
    ELSE [found |-> FALSE, group1 |-> <<>>]

FixRemoteWebSocket(remoteAddress, remotePort, target) ==
    IF target.has /\ Truthy(target.webSocketDebuggerUrl)
    THEN LET addressMatch == AddressMatch(target.webSocketDebuggerUrl)
         IN  IF addressMatch.found
             THEN LET replaceAddress == remoteAddress \o <<":">> \o ToDecimal(remotePort)
                  IN  [target EXCEPT !.webSocketDebuggerUrl =
                          ReplaceFirst(@, addressMatch.group1, replaceAddress)]
             ELSE target
    ELSE target

InitFix ==
    /\ IdleDiscovery
    /\ IdlePm
    /\ IdlePanel
    /\ IdleSettings
    /\ fixCall \in [remoteAddress : RemoteAddresses, remotePort : RemotePorts, target : Targets(MaxUrl)]
    /\ fixReturned = NoTarget

CallFixRemoteWebSocket ==
    /\ fixReturned = NoTarget
    /\ fixReturned' = FixRemoteWebSocket(fixCall.remoteAddress, fixCall.remotePort, fixCall.target)
    /\ UNCHANGED <<fixCall, discoveryVars, pmVars, panelVars, settingsVars>>

NextFix == CallFixRemoteWebSocket

SpecFix == InitFix /\ [][NextFix]_vars

\* the url has the form ws://<host>/<rest>: the scheme, a host that is not empty
\* and holds no "/", then "/" and the rest
HostOf(url) == NonSlashRun(url, Len(WsScheme) + 1)
HasWsForm(url) ==
    /\ HasAt(url, WsScheme, 1)
    /\ HostOf(url) # <<>>
    /\ HasAt(url, <<"/">>, Len(WsScheme) + Len(HostOf(url)) + 1)

\* "/<rest>"
RestOf(url) == SubSeq(url, Len(WsScheme) + Len(HostOf(url)) + 1, Len(url))

\* C5: a target whose webSocketDebuggerUrl is ws://<host>/<rest> comes back with
\* ws://<remoteAddress>:<remotePort>/<rest> (only the host is replaced); a target
\* whose webSocketDebuggerUrl is absent or not of that form comes back unchanged.
C5_OnlyHostReplaced ==
    fixReturned # NoTarget =>
        LET target == fixCall.target
            url == target.webSocketDebuggerUrl
            replaceAddress == fixCall.remoteAddress \o <<":">> \o ToDecimal(fixCall.remotePort)
        IN  IF target.has /\ HasWsForm(url)
            THEN /\ fixReturned.has
                 /\ fixReturned.webSocketDebuggerUrl = WsScheme \o replaceAddress \o RestOf(url)
            ELSE fixReturned = target

(***************************************************************************)
(* applyPathMapping (utils.ts 400-444)                                     *)
(***************************************************************************)
RECURSIVE ReplaceAll(_, _, _)
\* String.prototype.replace with a global one-character pattern
ReplaceAll(s, c, by) ==
    IF s = <<>> THEN <<>>
    ELSE (IF Head(s) = c THEN by ELSE <<Head(s)>>) \o ReplaceAll(Tail(s), c, by)

\* match(/\*/g): the number of "*" in s
Asterisks(s) == Cardinality({i \in 1..Len(s) : s[i] = "*"})

\* the characters escapeRegexSpecialChars escapes when "/" and "*" are excepted
RegexSpecialChars == {"\\", ".", "?", "(", ")", "^", "$", "{", "}", "|", "[", "]", "+"}

RECURSIVE EscapeRegexSpecialChars(_)
EscapeRegexSpecialChars(s) ==
    IF s = <<>> THEN <<>>
    ELSE (IF Head(s) \in RegexSpecialChars THEN <<"\\", Head(s)>> ELSE <<Head(s)>>)
             \o EscapeRegexSpecialChars(Tail(s))

RECURSIVE ReplaceEscapedBackslash(_)
\* replace(/\\\\/g, "/"): every pair of backslashes, left to right
ReplaceEscapedBackslash(s) ==
    IF Len(s) >= 2 /\ s[1] = "\\" /\ s[2] = "\\"
    THEN <<"/">> \o ReplaceEscapedBackslash(SubSeq(s, 3, Len(s)))
    ELSE IF s = <<>> THEN <<>>
    ELSE <<Head(s)>> \o ReplaceEscapedBackslash(Tail(s))

\* lines 424-427: the source of the regular expression between ^ and $
LeftRegexSegment(leftPattern) ==
    ReplaceEscapedBackslash(
        ReplaceAll(EscapeRegexSpecialChars(leftPattern), "*", <<"(", ".", "*", ")">>))

\* the case folding of the "i" flag, on the model's letters
Fold(c) == IF c = "A" THEN "a" ELSE IF c = "B" THEN "b" ELSE c

NoMatch == [ok |-> FALSE, group1 |-> <<>>]

RECURSIVE RegexMatch(_, _)
\* s.match(new RegExp("^" + re + "$", "i")) for the expressions LeftRegexSegment
\* builds: literal characters, escaped characters and the greedy group (.*)
RegexMatch(re, s) ==
    IF re = <<>> THEN [ok |-> s = <<>>, group1 |-> <<>>]
    ELSE IF HasAt(re, <<"(", ".", "*", ")">>, 1)
    THEN LET rest == SubSeq(re, 5, Len(re))
             fits == {k \in 0..Len(s) : RegexMatch(rest, SubSeq(s, k + 1, Len(s))).ok}
         IN  IF fits = {} THEN NoMatch
             ELSE LET k == CHOOSE n \in fits : \A m \in fits : m <= n
                  IN  [ok |-> TRUE, group1 |-> SubSeq(s, 1, k)]
    ELSE LET escaped == re[1] = "\\" /\ Len(re) >= 2
             literal == IF escaped THEN re[2] ELSE re[1]
             rest == SubSeq(re, IF escaped THEN 3 ELSE 2, Len(re))
         IN  IF s # <<>> /\ Fold(Head(s)) = Fold(literal)
             THEN LET m == RegexMatch(rest, Tail(s))
                  IN  [ok |-> m.ok, group1 |-> m.group1]
             ELSE NoMatch

\* ---- the library calls of lines 438 and 464 (vscode-chrome-debug-core utils)
RECURSIVE CollapseSeparators(_, _)
\* runs of separators become one sep (path.normalize, with no "." or ".." segment)
CollapseSeparators(s, seps) ==
    IF s = <<>> THEN <<>>
    ELSE IF Head(s) \in seps
    THEN IF Len(s) >= 2 /\ s[2] \in seps
         THEN CollapseSeparators(Tail(s), seps)
         ELSE <<Head(s)>> \o CollapseSeparators(Tail(s), seps)
    ELSE <<Head(s)>> \o CollapseSeparators(Tail(s), seps)

PosixJoin(s) == IF s = <<>> THEN <<".">> ELSE CollapseSeparators(s, {"/"})
Win32Join(s) ==
    IF s = <<>> THEN <<".">>
    ELSE CollapseSeparators(ReplaceAll(s, "/", <<"\\">>), {"\\"})

\* properJoin of one segment: posix for "/..." paths, win32 for "\..." paths,
\* the platform's path.join for the others
ProperJoin(s, platform) ==
    IF s # <<>> /\ Head(s) = "/" THEN ReplaceAll(PosixJoin(s), "\\", <<"/">>)
    ELSE IF s # <<>> /\ Head(s) = "\\" THEN Win32Join(s)
    ELSE IF platform = "win32" THEN Win32Join(s)
    ELSE PosixJoin(s)

FileScheme == <<"f", "i", "l", "e", ":", "/", "/">>

\* canonicalizeUrl: a file:/// url becomes its path, one trailing separator goes
CanonicalizeUrl(s) ==
    LET path == IF HasAt(s, FileScheme \o <<"/">>, 1)
                THEN SubSeq(s, Len(FileScheme) + 1, Len(s)) ELSE s
        noSlash == IF path # <<>> /\ path[Len(path)] = "/"
                   THEN SubSeq(path, 1, Len(path) - 1) ELSE path
    IN  IF noSlash # <<>> /\ noSlash[Len(noSlash)] = "\\"
        THEN SubSeq(noSlash, 1, Len(noSlash) - 1) ELSE noSlash

WorkspaceFolderPlaceholder ==
    <<"$", "{", "w", "o", "r", "k", "s", "p", "a", "c", "e", "F", "o", "l", "d", "e", "r", "}">>

\* vscode.workspace.workspaceFolders: none, or a first folder with this uri
Workspaces == {NoWorkspace, [open |-> TRUE, uri |-> FileScheme \o <<"/", "r">>]}

\* lines 460-468
ReplaceWorkSpaceFolderPlaceholder(path, workspace) ==
    IF workspace.open /\ Truthy(workspace.uri)
    THEN CanonicalizeUrl(ReplaceFirst(path, WorkspaceFolderPlaceholder, workspace.uri))
    ELSE <<>>

\* ---- the mapping table: an object, its keys in insertion order
Mapping(left, right) == [left |-> left, right |-> right]

\* the entries the tables are built from: every key occurs once; "a*" -> "*"
\* strips a prefix as the default "webpack:///*" -> "*" of lines 79-85 does
MappingPool ==
    { Mapping(<<"a", "*">>, <<"*">>),
      Mapping(<<"*", "b">>, <<"y", "*">>),
      Mapping(<<"a", "/", "*">>, WorkspaceFolderPlaceholder \o <<"/", "*">>),
      Mapping(<<"A", "\\", "*">>, <<"w", "/", "/", "*", "/">>),
      Mapping(<<"*">>, <<"*">>),
      Mapping(<<"a", "b">>, <<"q">>),
      Mapping(<<"a", "*", "*">>, <<"z">>),
      Mapping(<<"b", "*">>, <<"*", "*">>) }

Injective(t) == \A i, j \in 1..Len(t) : t[i].left = t[j].left => i = j

RECURSIVE TablesOfSize(_)
TablesOfSize(n) ==
    IF n = 0 THEN {<<>>}
    ELSE {Append(t, m) : t \in TablesOfSize(n - 1), m \in MappingPool}

Tables == {t \in UNION {TablesOfSize(n) : n \in 1..MaxKeys} : Injective(t)}

PathChars == {"a", "b", "/", "\\"}
SourcePaths == SeqsUpTo(PathChars, MaxPath)

\* Object.keys(pathMapping)
Keys(pathMapping) == [i \in 1..Len(pathMapping) |-> pathMapping[i].left]

\* pathMapping[leftPattern]
Lookup(pathMapping, leftPattern) ==
    (CHOOSE m \in {pathMapping[i] : i \in 1..Len(pathMapping)} : m.left = leftPattern).right

MaxLen(keys) ==
    IF keys = <<>> THEN 0
    ELSE CHOOSE n \in {Len(keys[i]) : i \in 1..Len(keys)} :
             \A i \in 1..Len(keys) : Len(keys[i]) <= n

RECURSIVE KeysFrom(_, _, _)
\* the keys of length n, then n + step, ...: each group in its original order
KeysFrom(keys, n, last) ==
    LET OfLength(k) == Len(k) = n
    IN  SelectSeq(keys, OfLength)
            \o (IF n = last THEN <<>>
                ELSE KeysFrom(keys, IF n < last THEN n + 1 ELSE n - 1, last))

\* line 407 with the comparator turned round: a.length - b.length
SortAscending(keys) == KeysFrom(keys, 0, MaxLen(keys))

\* line 407: sort((a, b) => b.length - a.length), a stable sort
SortByLength(keys) == KeysFrom(keys, MaxLen(keys), 0)

\* lines 413-421: the pattern pair is one the loop does not skip
Admissible(leftPattern, rightPattern) ==
    /\ Asterisks(leftPattern) <= 1
    /\ Asterisks(rightPattern) <= Asterisks(leftPattern)

\* lines 423-429
OverridePatternMatches(forwardSlashSourcePath, leftPattern) ==
    RegexMatch(LeftRegexSegment(leftPattern), forwardSlashSourcePath)

\* lines 436-440: the result for a pattern that matched
MappedPath(rightPattern, wildcardValue, env) ==
    ReplaceWorkSpaceFolderPlaceholder(
        ProperJoin(ReplaceAll(rightPattern, "*", wildcardValue), env.platform),
        env.workspace)

RECURSIVE FirstMatchNormalized(_, _, _, _)
\* the loop with line 443 returning forwardSlashSourcePath in place of sourcePath
FirstMatchNormalized(sourcePath, pathMapping, env, keys) ==
    IF keys = <<>> THEN ReplaceAll(sourcePath, "\\", <<"/">>)
    ELSE LET leftPattern == Head(keys)
             rightPattern == Lookup(pathMapping, leftPattern)
             m == OverridePatternMatches(ReplaceAll(sourcePath, "\\", <<"/">>), leftPattern)
         IN  IF Admissible(leftPattern, rightPattern) /\ m.ok
             THEN MappedPath(rightPattern, m.group1, env)
             ELSE FirstMatchNormalized(sourcePath, pathMapping, env, Tail(keys))

RECURSIVE FirstMatch(_, _, _, _)
\* lines 410-443: the loop over the sorted keys, from key i on
FirstMatch(sourcePath, pathMapping, env, keys) ==
    IF keys = <<>> THEN sourcePath
    ELSE LET leftPattern == Head(keys)
             rightPattern == Lookup(pathMapping, leftPattern)
             m == OverridePatternMatches(ReplaceAll(sourcePath, "\\", <<"/">>), leftPattern)
         IN  IF Admissible(leftPattern, rightPattern) /\ m.ok
             THEN MappedPath(rightPattern, m.group1, env)
             ELSE FirstMatch(sourcePath, pathMapping, env, Tail(keys))

ApplyPathMapping(sourcePath, pathMapping, env) ==
    FirstMatch(sourcePath, pathMapping, env, SortByLength(Keys(pathMapping)))

\* the platform of path.join and the workspace; without a workspace folder the
\* platform does not show in the result
Environments ==
    {e \in [platform : {"posix", "win32"}, workspace : Workspaces] :
        e.workspace.open \/ e.platform = "posix"}

InitPath ==
    /\ IdleDiscovery
    /\ IdleFix
    /\ IdlePanel
    /\ IdleSettings
    /\ pmCall \in [sourcePath : SourcePaths, pathMapping : Tables, env : Environments]
    /\ pmReturned = NotReturned

CallApplyPathMapping ==
    /\ pmReturned = NotReturned
    /\ pmReturned' = ApplyPathMapping(pmCall.sourcePath, pmCall.pathMapping, pmCall.env)
    /\ UNCHANGED <<pmCall, discoveryVars, fixVars, panelVars, settingsVars>>

NextPath == CallApplyPathMapping

SpecPath == InitPath /\ [][NextPath]_vars

(***************************************************************************)
(* Claims about applyPathMapping                                           *)
(***************************************************************************)
ForwardSlashSourcePath == ReplaceAll(pmCall.sourcePath, "\\", <<"/">>)

\* the entries of the table that are admissible and match the source path
Candidates ==
    {i \in 1..Len(pmCall.pathMapping) :
        /\ Admissible(pmCall.pathMapping[i].left, pmCall.pathMapping[i].right)
        /\ OverridePatternMatches(ForwardSlashSourcePath, pmCall.pathMapping[i].left).ok}

\* the result built from entry i alone
BuiltFrom(i) ==
    MappedPath(pmCall.pathMapping[i].right,
               OverridePatternMatches(ForwardSlashSourcePath, pmCall.pathMapping[i].left).group1,
               pmCall.env)

KeyLen(i) == Len(pmCall.pathMapping[i].left)

\* C6: when several admissible keys match the normalized source path, the result
\* is the one built from the longest of them, and from that key only.
C6_LongestKeyWins ==
    pmReturned # NotReturned =>
        \A i \in Candidates :
            (\A k \in Candidates \ {i} : KeyLen(k) < KeyLen(i)) => pmReturned = BuiltFrom(i)

C6_Witness ==
    /\ pmReturned # NotReturned
    /\ \E i, j \in Candidates :
           /\ KeyLen(j) < KeyLen(i)
           /\ pmReturned = BuiltFrom(i)
           /\ pmReturned # BuiltFrom(j)

SameEntries(t1, t2) ==
    {t1[i] : i \in 1..Len(t1)} = {t2[i] : i \in 1..Len(t2)}

\* C10: the result is the same for every table that holds the same entries,
\* whatever their insertion order, also when keys of equal length match.
C10_OrderIrrelevant ==
    pmReturned # NotReturned =>
        \A t \in Tables :
            SameEntries(t, pmCall.pathMapping) =>
                ApplyPathMapping(pmCall.sourcePath, t, pmCall.env) = pmReturned

\* every pattern of the table has at most one wildcard
AtMostOneWildcard(t) ==
    \A i \in 1..Len(t) : Asterisks(t[i].left) <= 1 /\ Asterisks(t[i].right) <= 1

\* the entries applied to the source path: the longest matching admissible keys
LongestCandidates == {i \in Candidates : \A k \in Candidates : KeyLen(k) <= KeyLen(i)}

\* the source path has the form of replacement i already: it matches the
\* replacement read as a pattern, its wildcard standing for any run
MatchesReplacement(i) ==
    OverridePatternMatches(ForwardSlashSourcePath, pmCall.pathMapping[i].right).ok

\* the returned path is one the table maps again
ResultMatchesAKey ==
    \E i \in 1..Len(pmCall.pathMapping) :
        /\ Admissible(pmCall.pathMapping[i].left, pmCall.pathMapping[i].right)
        /\ OverridePatternMatches(ReplaceAll(pmReturned, "\\", <<"/">>),
                                  pmCall.pathMapping[i].left).ok

AppliedAgain == ApplyPathMapping(pmReturned, pmCall.pathMapping, pmCall.env)

\* C11 as stated: for a table whose patterns have at most one wildcard on each
\* side and a path that already has the form of the replacement of its longest
\* applicable key, applying the table to the result again gives the same path.
C11_IdempotentOnMappedPaths ==
    (/\ pmReturned # NotReturned
     /\ AtMostOneWildcard(pmCall.pathMapping)
     /\ \E i \in LongestCandidates : pmReturned = BuiltFrom(i) /\ MatchesReplacement(i))
        => AppliedAgain = pmReturned

\* C11 as the code has it: for a table whose patterns have at most one wildcard
\* on each side, applying the table again gives the same path whenever the
\* result matches no admissible key of the table.
C11_IdempotentWhenResultUnmatched ==
    (/\ pmReturned # NotReturned
     /\ AtMostOneWildcard(pmCall.pathMapping)
     /\ ~ResultMatchesAKey)
        => AppliedAgain = pmReturned

C11_Witness ==
    /\ pmReturned # NotReturned
    /\ AtMostOneWildcard(pmCall.pathMapping)
    /\ \E i \in LongestCandidates : pmReturned = BuiltFrom(i) /\ MatchesReplacement(i)
    /\ pmReturned # pmCall.sourcePath
    /\ pmReturned # <<>>
    /\ ~ResultMatchesAKey
    /\ AppliedAgain = pmReturned

\* the key the loop applies: the first matching admissible key in sorted order
AppliedKey ==
    LET IsCandidate(k) == \E i \in Candidates : pmCall.pathMapping[i].left = k
    IN  Head(SelectSeq(SortByLength(Keys(pmCall.pathMapping)), IsCandidate))

AppliedReplacement == Lookup(pmCall.pathMapping, AppliedKey)

HasPlaceholder(rightPattern) == IndexOf(rightPattern, WorkspaceFolderPlaceholder) # 0

\* the result built from the applied entry under workspace w
BuiltUnder(w) ==
    MappedPath(AppliedReplacement,
               OverridePatternMatches(ForwardSlashSourcePath, AppliedKey).group1,
               [pmCall.env EXCEPT !.workspace = w])

OpenWorkspace == CHOOSE w \in Workspaces : w.open

\* C13: when a key matches and its replacement holds no ${workspaceFolder}, the
\* result is the wildcard-substituted replacement (joined and canonicalized as
\* lines 438-440 do), the same with and without a workspace folder; the result
\* is empty for want of a workspace only when the replacement holds the
\* placeholder.
C13_WorkspaceOnlyForPlaceholder ==
    (pmReturned # NotReturned /\ Candidates # {}) =>
        /\ ~HasPlaceholder(AppliedReplacement) =>
               /\ pmReturned = BuiltUnder(OpenWorkspace)
               /\ pmReturned = BuiltUnder(NoWorkspace)
        /\ (pmReturned = <<>> /\ BuiltUnder(OpenWorkspace) # <<>>) =>
               (HasPlaceholder(AppliedReplacement) /\ ~pmCall.env.workspace.open)

InitDiscovery == IdleDiscovery /\ IdleFix /\ IdlePm /\ IdlePanel /\ IdleSettings

NextDiscovery ==
    \/ Call /\ UNCHANGED <<fixVars, pmVars, panelVars, settingsVars>>
    \/ FirstFetchSettles /\ UNCHANGED <<fixVars, pmVars, panelVars, settingsVars>>
    \/ SecondFetchSettles /\ UNCHANGED <<fixVars, pmVars, panelVars, settingsVars>>

SpecDiscovery == InitDiscovery /\ [][NextDiscovery]_vars

(***************************************************************************)
(* Claims about getListOfTargets                                           *)
(***************************************************************************)
Failed(answer) == answer.net = "error" \/ answer.status # 200
Succeeded(answer) == answer.net = "ok" /\ answer.status = 200
EmptyResult == JsonArray(<<>>)

\* C1: when the fetch of /json/list fails (network error or a status other than
\* 200) and the fetch of /json answers 200 with a valid JSON array, the function
\* returns exactly the array parsed from the /json body, without rejecting.
C1_FallbackReturnsJsonArray ==
    (completed >= 1 /\ Failed(responses[1])) =>
        /\ requests = <<"/json/list", "/json">>
        /\ pc = "done" =>
               /\ Len(responses) = 2
               /\ (Succeeded(responses[2]) /\ IsJsonArray(responses[2].data))
                      => (~rejected /\ result = JSONParse(responses[2].data).val)

C1_Witness ==
    /\ pc = "done"
    /\ responses = << [net |-> "ok", status |-> 500, data |-> <<"t">>],
                      [net |-> "ok", status |-> 200, data |-> <<"[", "t", "]">>] >>
    /\ result = JsonArray(<<Target>>)

\* C2: whatever the two fetches do, the function never rejects to its caller and
\* always runs to completion; the result is the empty array when both fetches
\* fail and when the chosen body does not parse as JSON.
C2_NeverThrows ==
    /\ ~rejected
    /\ (pc = "done" \/ ENABLED NextDiscovery)
    /\ pc = "done" =>
            /\ result # NoResult
            /\ (Len(responses) = 2 /\ Failed(responses[1]) /\ Failed(responses[2]))
                    => result = EmptyResult
            /\ ~JSONParse(jsonResponse).ok => result = EmptyResult

C2_Witness ==
    /\ pc = "done"
    /\ Len(responses) = 2
    /\ responses[1].status = 500
    /\ responses[2].net = "error"
    /\ result = EmptyResult

\* C3 as stated: when /json/list answers 200 with a body that is empty after
\* trimming white space, the function falls back to /json and returns what the
\* /json body parses to.
C3_TrimmedEmptyFallsBack ==
    (/\ pc = "done"
     /\ Succeeded(responses[1])
     /\ Trim(responses[1].data) = <<>>)
        => (/\ requests = <<"/json/list", "/json">>
            /\ (Succeeded(responses[2]) /\ JSONParse(responses[2].data).ok)
                    => result = JSONParse(responses[2].data).val)

\* C3 amended: when /json/list answers 200 with a body of length zero, the
\* function requests /json next and returns what the /json body parses to (the
\* empty array when that fetch fails or its body does not parse).
C3_EmptyBodyFallsBack ==
    (/\ completed >= 1
     /\ Succeeded(responses[1])
     /\ responses[1].data = <<>>)
        => (/\ requests = <<"/json/list", "/json">>
            /\ pc = "done" =>
                   /\ Len(responses) = 2
                   /\ result = IF Succeeded(responses[2]) /\ JSONParse(responses[2].data).ok
                                THEN JSONParse(responses[2].data).val
                                ELSE EmptyResult)

C3_Witness ==
    /\ pc = "done"
    /\ responses = << [net |-> "ok", status |-> 200, data |-> <<>>],
                      [net |-> "ok", status |-> 200, data |-> <<"[", "t", "]">>] >>
    /\ result = JsonArray(<<Target>>)

\* C4: the endpoints are requested strictly in sequence (/json only after the
\* /json/list request has settled), /json is never requested once /json/list
\* returned a non-empty body, and that body is the one parsed even when it is
\* not valid JSON (the result is then empty).
C4_SequentialFirstNonEmpty ==
    /\ Len(requests) <= completed + 1
    /\ \A i \in 1..Len(requests) : requests[i] = Endpoints[i]
    /\ (completed >= 1 /\ Succeeded(responses[1]) /\ responses[1].data # <<>>)
            => (/\ requests = <<"/json/list">>
                /\ pc = "done"
                /\ jsonResponse = responses[1].data
                /\ result = IF JSONParse(responses[1].data).ok
                             THEN JSONParse(responses[1].data).val
                             ELSE EmptyResult)

C4_Witness ==
    /\ pc = "done"
    /\ responses = << [net |-> "ok", status |-> 200, data |-> <<"t", "]">>] >>
    /\ requests = <<"/json/list">>
    /\ result = EmptyResult

(***************************************************************************)
(* PanelSocket (panelSocket.ts), the message relay of one panel.           *)
(* A socket is Connecting, Open or Closed; frames that arrive from the     *)
(* webview before it is open wait in a queue; "close" is raised once.      *)
(***************************************************************************)
Frames == {1, 2}

\* new PanelSocket(targetUrl, postToWebview)
NewPanelSocket(closeOnDispose) ==
    [ state |-> "Connecting",
      disposed |-> FALSE,
      queue |-> <<>>,            \* frames waiting for the socket to open
      sent |-> <<>>,             \* frames handed to the remote socket, in order
      closeRaised |-> FALSE,     \* the "close" event has been raised
      closeOnDispose |-> closeOnDispose, \* dispose() itself raises "close"
      remoteClosed |-> FALSE,    \* the remote socket has reported its close
      lateClose |-> FALSE,       \* ... and did so after dispose()
      flushed |-> 0 ]            \* how many queued frames the open delivered

\* onMessageFromWebview(message)
PanelSocketOnMessageFromWebview(socket, message) ==
    IF socket.state = "Closed" THEN socket
    ELSE IF socket.state = "Open" THEN [socket EXCEPT !.sent = Append(@, message)]
    ELSE [socket EXCEPT !.queue = Append(@, message)]

\* the remote socket opens: the queue is flushed in arrival order
PanelSocketOnOpen(socket) ==
    [socket EXCEPT !.state = "Open", !.sent = @ \o socket.queue, !.queue = <<>>,
                   !.flushed = Len(socket.queue)]

\* a ScreencastPanel: its webview panel and its panel socket
NewPanel(closeOnDispose) ==
    [ panelDisposed |-> FALSE,
      panelSocket |-> NewPanelSocket(closeOnDispose),
      received |-> <<>> ]        \* every message the webview posted, in order

Overflowed(st) == [st EXCEPT !.overflow = TRUE]

RECURSIVE Dispose(_, _, _), WebviewPanelDispose(_, _, _), OnDidDispose(_, _, _)
RECURSIVE PanelSocketDispose(_, _, _), OnSocketClose(_, _, _), DisposeSocketOnly(_, _, _)

\* screencastPanel.ts 52-57 without line 55: the webview panel is left open
DisposeSocketOnly(st, id, depth) ==
    IF depth = 0 \/ st.overflow THEN Overflowed(st)
    ELSE PanelSocketDispose([st EXCEPT !.instance = 0], id, depth - 1)

\* screencastPanel.ts 52-57: ScreencastPanel.dispose()
Dispose(st, id, depth) ==
    IF depth = 0 \/ st.overflow THEN Overflowed(st)
    ELSE LET cleared == [st EXCEPT !.instance = 0]
             panelGone == WebviewPanelDispose(cleared, id, depth - 1)
         IN  PanelSocketDispose(panelGone, id, depth - 1)

\* vscode's WebviewPanel.dispose(): the first call fires onDidDispose, the
\* later ones return at once
WebviewPanelDispose(st, id, depth) ==
    IF depth = 0 \/ st.overflow THEN Overflowed(st)
    ELSE IF st.panels[id].panelDisposed THEN st
    ELSE OnDidDispose([st EXCEPT !.panels[id].panelDisposed = TRUE], id, depth - 1)

\* screencastPanel.ts 34-37: the handler of panel.onDidDispose
OnDidDispose(st, id, depth) ==
    IF depth = 0 \/ st.overflow THEN Overflowed(st)
    ELSE PanelSocketDispose(Dispose(st, id, depth - 1), id, depth - 1)

\* PanelSocket.dispose(): idempotent; closes the socket, drops the queue, and
\* raises "close" at most once, never after it has returned
PanelSocketDispose(st, id, depth) ==
    IF depth = 0 \/ st.overflow THEN Overflowed(st)
    ELSE LET socket == st.panels[id].panelSocket
         IN  IF socket.disposed THEN st
             ELSE LET closed == [socket EXCEPT !.disposed = TRUE, !.state = "Closed",
                                               !.queue = <<>>]
                  IN  IF socket.closeOnDispose /\ ~socket.closeRaised
                      THEN OnSocketClose(
                               [st EXCEPT !.panels[id].panelSocket =
                                              [closed EXCEPT !.closeRaised = TRUE]],
                               id, depth - 1)
                      ELSE [st EXCEPT !.panels[id].panelSocket = closed]

\* screencastPanel.ts 63-65: the handler of the socket's "close" event
OnSocketClose(st, id, depth) ==
    IF depth = 0 \/ st.overflow THEN Overflowed(st)
    ELSE Dispose(st, id, depth - 1)

\* the remote socket reports its close to the PanelSocket: "close" is raised
\* unless it was raised before or the PanelSocket is disposed
PanelSocketOnClose(st, id, depth) ==
    LET socket == st.panels[id].panelSocket
        noted == [socket EXCEPT !.remoteClosed = TRUE, !.state = "Closed",
                                !.lateClose = socket.disposed]
    IN  IF socket.disposed \/ socket.closeRaised
        THEN [st EXCEPT !.panels[id].panelSocket = noted]
        ELSE OnSocketClose(
                 [st EXCEPT !.panels[id].panelSocket = [noted EXCEPT !.closeRaised = TRUE]],
                 id, depth - 1)

\* screencastPanel.ts 108-121 without lines 111-113: the prior panel is kept
CreateOrShowKeepsPrior(st, closeOnDispose) ==
    [st EXCEPT !.panels = Append(@, NewPanel(closeOnDispose)),
               !.instance = Len(st.panels) + 1]

\* screencastPanel.ts 108-121 with lines 111-113 moved behind line 120: the prior
\* panel is disposed once the new one is the instance
CreateOrShowDisposesLast(st, closeOnDispose) ==
    LET created == [st EXCEPT !.panels = Append(@, NewPanel(closeOnDispose)),
                              !.instance = Len(st.panels) + 1]
    IN  IF st.instance # 0 THEN Dispose(created, st.instance, MaxCallDepth) ELSE created

\* screencastPanel.ts 108-121: ScreencastPanel.createOrShow
CreateOrShow(st, closeOnDispose) ==
    LET prior == IF st.instance # 0 THEN Dispose(st, st.instance, MaxCallDepth) ELSE st
    IN  [prior EXCEPT !.panels = Append(@, NewPanel(closeOnDispose)),
                      !.instance = Len(prior.panels) + 1]

\* screencastPanel.ts 47-49 with the forwarding dropped
OnDidReceiveMessageDrops(st, id, message) == st

\* screencastPanel.ts 47-49: the handler of webview.onDidReceiveMessage
OnDidReceiveMessage(st, id, message) ==
    [st EXCEPT !.panels[id].panelSocket = PanelSocketOnMessageFromWebview(@, message)]

Now == [instance |-> instance, panels |-> panels, overflow |-> overflow]

Becomes(st) ==
    /\ instance' = st.instance
    /\ panels' = st.panels
    /\ overflow' = st.overflow
    /\ UNCHANGED <<discoveryVars, fixVars, pmVars, settingsVars>>

PanelIds == 1..Len(panels)

RECURSIVE ReceivedUpTo(_)
\* the number of messages the webviews of panels 1..n have posted
ReceivedUpTo(n) == IF n = 0 THEN 0 ELSE Len(panels[n].received) + ReceivedUpTo(n - 1)

\* the command that opens the screencast
CallCreateOrShow ==
    /\ Len(panels) < MaxPanels
    /\ \E closeOnDispose \in BOOLEAN : Becomes(CreateOrShow(Now, closeOnDispose))

\* the extension disposes the panel it can reach: ScreencastPanel.instance
CallDispose ==
    /\ instance # 0
    /\ Becomes(Dispose(Now, instance, MaxCallDepth))

\* the user closes the webview panel
UserClosesPanel ==
    \E id \in PanelIds :
        /\ ~panels[id].panelDisposed
        /\ Becomes(WebviewPanelDispose(Now, id, MaxCallDepth))

\* the remote socket of a panel opens
SocketOpens ==
    \E id \in PanelIds :
        /\ panels[id].panelSocket.state = "Connecting"
        /\ Becomes([Now EXCEPT !.panels[id].panelSocket = PanelSocketOnOpen(@)])

\* the remote socket of a panel closes, or its close after dispose() is reported
SocketCloses ==
    \E id \in PanelIds :
        /\ ~panels[id].panelSocket.remoteClosed
        /\ Becomes(PanelSocketOnClose(Now, id, MaxCallDepth))

\* the webview of a panel posts a message
WebviewPostsMessage ==
    \E id \in PanelIds, message \in Frames :
        /\ ~panels[id].panelDisposed
        /\ ReceivedUpTo(Len(panels)) < MaxFrames
        /\ Becomes(OnDidReceiveMessage(
               [Now EXCEPT !.panels[id].received = Append(@, message)], id, message))

InitPanel == IdleDiscovery /\ IdleFix /\ IdlePm /\ IdlePanel /\ IdleSettings

NextPanel ==
    \/ CallCreateOrShow
    \/ CallDispose
    \/ UserClosesPanel
    \/ SocketOpens
    \/ SocketCloses
    \/ WebviewPostsMessage

SpecPanel == InitPanel /\ [][NextPanel]_vars

(***************************************************************************)
(* Claims about ScreencastPanel                                            *)
(***************************************************************************)
\* a session exists as long as its panel or its socket is not disposed
Exists(id) == ~panels[id].panelDisposed \/ ~panels[id].panelSocket.disposed

\* C7: after any sequence of createOrShow calls, panel closes, disposals and
\* socket close notifications, at most one session exists: createOrShow has
\* disposed the prior session when it creates the next.
C7_AtMostOneSession == Cardinality({id \in PanelIds : Exists(id)}) <= 1

C7_Witness ==
    /\ Len(panels) = 2
    /\ panels[1].panelSocket.lateClose
    /\ ~Exists(1)
    /\ Exists(2)
    /\ instance = 2

\* C8: the socket and the panel of a session are disposed together: after every
\* handler has run, either both are disposed or neither is, a closed socket
\* means a disposed session, and no teardown ran into the call-depth limit.
C8_DisposedTogether ==
    /\ ~overflow
    /\ \A id \in PanelIds :
           /\ panels[id].panelDisposed = panels[id].panelSocket.disposed
           /\ panels[id].panelSocket.state = "Closed" => panels[id].panelDisposed

C8_Witness ==
    \E id \in PanelIds :
        /\ panels[id].panelSocket.remoteClosed
        /\ ~panels[id].panelSocket.lateClose
        /\ panels[id].panelDisposed
        /\ panels[id].panelSocket.disposed
        /\ ~overflow

IsPrefix(s, t) == Len(s) <= Len(t) /\ SubSeq(t, 1, Len(s)) = s

\* C9: frames the webview posts before the socket is open are queued in arrival
\* order; the open delivers them in that order, each once; frames posted after
\* the open follow them.
C9_QueuedThenFlushedInOrder ==
    \A id \in PanelIds :
        LET socket == panels[id].panelSocket
        IN  /\ socket.state = "Connecting" =>
                   socket.sent = <<>> /\ socket.queue = panels[id].received
            /\ socket.state = "Open" =>
                   socket.queue = <<>> /\ socket.sent = panels[id].received
            /\ socket.state = "Closed" =>
                   socket.queue = <<>> /\ IsPrefix(socket.sent, panels[id].received)

C9_Witness ==
    \E id \in PanelIds :
        /\ panels[id].panelSocket.state = "Open"
        /\ panels[id].panelSocket.flushed = 2
        /\ panels[id].panelSocket.sent = <<2, 1, 2>>

\* the panel and the socket of session id are both in use
Live(id) == ~panels[id].panelDisposed /\ ~panels[id].panelSocket.disposed

\* C14: in every reachable state, a ScreencastPanel whose panel and socket are
\* not disposed is the one ScreencastPanel.instance refers to: no teardown of a
\* replaced panel (its socket's late close, its panel's dispose handler) has
\* cleared the reference to the current panel.
C14_LiveSessionIsInstance ==
    /\ ~overflow
    /\ \A id \in PanelIds : Live(id) => instance = id

C14_Witness ==
    /\ Len(panels) = 2
    /\ panels[1].panelSocket.remoteClosed
    /\ panels[1].panelSocket.lateClose
    /\ panels[1].panelDisposed
    /\ Live(2)
    /\ panels[2].panelSocket.state = "Open"
    /\ instance = 2

(***************************************************************************)
(* getRemoteEndpointSettings (utils.ts 201-233)                            *)
(***************************************************************************)
\* JavaScript values: undefined, strings, numbers and booleans
Undefined == [t |-> "undefined"]
Str(s) == [t |-> "string", s |-> s]
Num(n) == [t |-> "number", n |-> n]
Bool(b) == [t |-> "boolean", b |-> b]

\* ToBoolean: undefined, "", 0 and false are falsy
ToBoolean(v) ==
    CASE v.t = "undefined" -> FALSE
      [] v.t = "string" -> Truthy(v.s)
      [] v.t = "number" -> v.n # 0
      [] v.t = "boolean" -> v.b

\* a || b
Or(a, b) == IF ToBoolean(a) THEN a ELSE b

\* a, unless it is undefined: the test of lines 214 and 218
OrIfUndefined(a, b) == IF a # Undefined THEN a ELSE b

SETTINGS_DEFAULT_USE_HTTPS == FALSE
SETTINGS_DEFAULT_HOSTNAME == <<"l", "o", "c", "a", "l", "h", "o", "s", "t">>
SETTINGS_DEFAULT_PORT == 9222
SETTINGS_DEFAULT_URL == <<"a", "b", "o", "u", "t", ":", "b", "l", "a", "n", "k">>
SETTINGS_DEFAULT_ATTACH_TIMEOUT == 10000

\* path.join(os.tmpdir(), `vscode-edge-devtools-userdatadir_${port}`), "t" for
\* the temporary directory and "u" for the fixed part of the name
TempUserDataDir(port) == <<"t", "/", "u", "_">> \o ToDecimal(port)

\* lines 211-230
UserDataDir(config, settings, port) ==
    LET browserPathSet == Or(config.browserFlavor, Str(<<"D", "e", "f", "a", "u", "l", "t">>))
        userDataDir == OrIfUndefined(config.userDataDir, settings.userDataDir)
    IN  IF userDataDir = Bool(TRUE)
           \/ (userDataDir = Undefined /\ browserPathSet = Str(<<"D", "e", "f", "a", "u", "l", "t">>))
        THEN Str(TempUserDataDir(port.n))
        ELSE IF ~ToBoolean(userDataDir) THEN Str(<<>>)
        ELSE userDataDir

\* lines 201-233
GetRemoteEndpointSettings(config, settings) ==
    LET hostname == Or(config.hostname, Or(settings.hostname, Str(SETTINGS_DEFAULT_HOSTNAME)))
        port == Or(config.port, Or(settings.port, Num(SETTINGS_DEFAULT_PORT)))
        useHttps == Or(config.useHttps, Or(settings.useHttps, Bool(SETTINGS_DEFAULT_USE_HTTPS)))
        defaultUrl == Or(config.url, Or(settings.defaultUrl, Str(SETTINGS_DEFAULT_URL)))
        timeout == Or(config.timeout, Or(settings.timeout, Num(SETTINGS_DEFAULT_ATTACH_TIMEOUT)))
    IN  [hostname |-> hostname, port |-> port, useHttps |-> useHttps,
         defaultUrl |-> defaultUrl,
         userDataDir |-> UserDataDir(config, settings, port),
         timeout |-> timeout]

\* the launch configs: each field absent, falsy or set
UserConfigs ==
    [hostname : {Undefined, Str(<<>>), Str(<<"c">>)},
     port : {Undefined, Num(0), Num(80)},
     useHttps : {Undefined, Bool(FALSE), Bool(TRUE)},
     url : {Undefined, Str(<<>>), Str(<<"u">>)},
     timeout : {Undefined, Num(0), Num(5)},
     userDataDir : {Undefined, Bool(TRUE), Bool(FALSE)},
     browserFlavor : {Undefined, Str(<<"S">>)}]

\* what settings.get answers for each name of the store
PersistedSettings ==
    [hostname : {Undefined, Str(<<"s">>)},
     port : {Undefined, Num(8)},
     useHttps : {Undefined, Bool(FALSE), Bool(TRUE)},
     defaultUrl : {Undefined, Str(<<"d">>)},
     timeout : {Undefined, Num(7)},
     userDataDir : {Undefined, Str(<<"p">>)}]

InitSettings ==
    /\ IdleDiscovery
    /\ IdleFix
    /\ IdlePm
    /\ IdlePanel
    /\ settingsCall \in [config : UserConfigs, settings : PersistedSettings]
    /\ settingsReturned = NoSettings

CallGetRemoteEndpointSettings ==
    /\ settingsReturned = NoSettings
    /\ settingsReturned' = GetRemoteEndpointSettings(settingsCall.config, settingsCall.settings)
    /\ UNCHANGED <<settingsCall, discoveryVars, fixVars, pmVars, panelVars>>

NextSettings == CallGetRemoteEndpointSettings

SpecSettings == InitSettings /\ [][NextSettings]_vars

(***************************************************************************)
(* Claims about getRemoteEndpointSettings                                  *)
(***************************************************************************)
\* the explicit value when one is supplied, else the persisted one when one is
\* supplied, else the default
Resolved(explicit, persisted, default) ==
    IF explicit # Undefined THEN explicit
    ELSE IF persisted # Undefined THEN persisted
    ELSE default

\* C12: each of hostname, port, useHttps, defaultUrl and timeout is the explicit
\* config's value when one is supplied, otherwise the persisted setting's value
\* when one is supplied, otherwise the built-in default, also when the explicit
\* value is one such as useHttps = false.
C12_ExplicitOverridesPersisted ==
    settingsReturned # NoSettings =>
        LET config == settingsCall.config
            settings == settingsCall.settings
        IN  /\ settingsReturned.hostname
                   = Resolved(config.hostname, settings.hostname, Str(SETTINGS_DEFAULT_HOSTNAME))
            /\ settingsReturned.port
                   = Resolved(config.port, settings.port, Num(SETTINGS_DEFAULT_PORT))
            /\ settingsReturned.useHttps
                   = Resolved(config.useHttps, settings.useHttps, Bool(SETTINGS_DEFAULT_USE_HTTPS))
            /\ settingsReturned.defaultUrl
                   = Resolved(config.url, settings.defaultUrl, Str(SETTINGS_DEFAULT_URL))
            /\ settingsReturned.timeout
                   = Resolved(config.timeout, settings.timeout, Num(SETTINGS_DEFAULT_ATTACH_TIMEOUT))

====
